---- MODULE Spec2Model ----
(***************************************************************************)
(* State-machine model of the stabilization orchestrator                   *)
(* (StabilizationManager, src/src/core/lib.rs).                            *)
(*                                                                         *)
(* One caller thread (the editor/UI) issues the public operations; the     *)
(* closures spawned on THREAD_POOL run concurrently with it and with each  *)
(* other.  An action is one lock-protected (or atomic) access of the code; *)
(* an operation that takes several locks one after another is several      *)
(* actions, so that the pool's jobs interleave with it where the code lets *)
(* them.  Consecutive accesses are one action only where no job step reads *)
(* or writes what they touch.                                              *)
(***************************************************************************)
EXTENDS Integers, Sequences, FiniteSets, TLC

\* ------------------------------------------------------------------ bounds
MaxJobs  == 2   \* recompute_threaded submissions in one behaviour
MaxId    == 1   \* fastrand::u64(..) draws from 0..MaxId
MaxCalls == 2   \* public calls besides recompute_threaded beside the pool's jobs
MaxEdits == 4   \* public calls of one behaviour without jobs
MaxLiveCalls == 1   \* public calls besides recompute_threaded while the last job is awaited
MaxFile  == 1   \* telemetry files 1..MaxFile (0: no quaternions loaded)
MaxVal   == 1   \* scalar settings range over 0..MaxVal
MaxRows  == 2   \* rows of one per-timestamp undistortion item
MaxFrame == 6   \* frame numbers 0..MaxFrame handed to timestamp_at_frame

Ids    == 0..MaxId
Vals   == 0..MaxVal
Files  == 1..MaxFile
Slots  == 1..MaxJobs

\* The two orchestrators of a behaviour: the original and its render clone.
\* A handle is the index of the cell an Arc<RwLock<..>> points to.
Self == [params |-> 0, gyro |-> 0, lens |-> 0, undistortion |-> 0]
Cells == 0..1

\* ------------------------------------------------------------- data model
None == <<>>
Some(x) == <<x>>

\* Vec<f64> of per-frame fovs: its length and what it was computed from.
NoFovs == [len |-> 0, zoom |-> None, quats |-> None]

DefaultBasicParams ==
    [ fov |-> 1, fovs |-> NoFovs,
      stab_enabled |-> TRUE, show_detected_features |-> TRUE, show_optical_flow |-> TRUE,
      frame_readout_time |-> 0, adaptive_zoom_window |-> 0,
      size |-> <<0, 0>>, output_size |-> <<0, 0>>,
      video_size |-> <<0, 0>>, video_output_size |-> <<0, 0>>,
      video_rotation |-> 0,
      framebuffer_inverted |-> FALSE, is_calibrator |-> FALSE,
      trim_start |-> 0, trim_end |-> 1,
      background |-> 0,
      fps |-> 0, fps_scale |-> None, frame_count |-> 0, duration_ms |-> 0 ]

\* BasicParams::get_scaled_fps: fps / scale, the scale kept as the pair
\* <<numerator, denominator>> override_video_fps divided.
get_scaled_fps(p) ==
    IF p.fps_scale = None THEN <<p.fps, 1>>
    ELSE <<p.fps * p.fps_scale[1][2], p.fps_scale[1][1]>>

\* GyroSource::new(): no quaternions, nothing smoothed.
NoSmoothed == [of |-> 0, by |-> None]
GyroSource_new ==
    [ quaternions |-> 0, smoothed_quaternions |-> NoSmoothed,
      org_smoothed_quaternions |-> NoSmoothed, fps |-> <<0, 1>>, offsets |-> 0 ]

\* GyroSource::init_from_params: takes the (scaled) frame rate of params.
init_from_params(g, p) == [g EXCEPT !.fps = get_scaled_fps(p)]

\* GyroSource::load_from_telemetry: the file's quaternions replace the old.
load_from_telemetry(g, file) == [g EXCEPT !.quaternions = file]

\* GyroSource::recompute_smoothness(alg): the smoothed sequences are those
\* of the current quaternions under alg.
gyro_recompute_smoothness(g, alg) ==
    LET s == IF g.quaternions = 0 THEN NoSmoothed
             ELSE [of |-> g.quaternions, by |-> Some(alg)]
    IN  [g EXCEPT !.smoothed_quaternions = s, !.org_smoothed_quaternions = s]

\* Smoothing: the selected algorithm, its parameter, the quaternions' checksum.
Smoothing_default == [current |-> 0, param |-> 0, quats_checksum |-> 0]

\* Smoothing::current(): the algorithm object a job clones.
current(s) == [index |-> s.current, param |-> s.param]

\* Smoothing::get_state_checksum: a fingerprint of the whole smoothing
\* state; never 0, the value the committed fingerprints start from.
smoothing_get_state_checksum(s) ==
    1 + s.current + (MaxVal + 1) * (s.param + (MaxVal + 1) * s.quats_checksum)

\* AdaptiveZoom::from_manager: the inputs of the zoom stage at call time.
AdaptiveZoom_from_manager(p) ==
    [fov |-> p.fov, window |-> p.adaptive_zoom_window]

\* AdaptiveZoom::get_state_checksum: fingerprint of those inputs, never 0.
zoom_get_state_checksum(z) == 1 + z.fov + (MaxVal + 2) * (z.window + 1)

\* undistortion::ComputeParams::from_manager: a private copy of what the
\* undistortion engine computes from.
ComputeParams_from_manager(p, g, l) ==
    [gyro |-> g, fovs |-> p.fovs, fov |-> p.fov, lens |-> l,
     output_size |-> p.output_size]

\* Undistortion::default(): no sizes, no compute parameters.
Undistortion_default ==
    [compute_params |-> None, size |-> None, background |-> 0]

\* The pixel type T of StabilizationManager<T> and Undistortion<T>.
RGBA8 == [COUNT |-> 4, SCALAR_BYTES |-> 1]
RGBAf == [COUNT |-> 4, SCALAR_BYTES |-> 4]
PixelTypes == {RGBA8, RGBAf}

LensProfile_default == 0

\* recompute_adaptive_zoom_static: reads (window, frame_count, scaled fps)
\* from the shared params, samples the smoothed quaternions of the gyro it
\* is given and lets zoom compute one fov per frame; no zoom, no fovs.
recompute_adaptive_zoom_static(zoom, p, g) ==
    IF (p.adaptive_zoom_window > 0 \/ p.adaptive_zoom_window < 0) /\ p.frame_count > 0
    THEN [len |-> p.frame_count, zoom |-> Some(zoom),
          quats |-> Some([smoothed |-> g.smoothed_quaternions, fps |-> get_scaled_fps(p)])]
    ELSE NoFovs

\* ------------------------------------------------------------------ state
VARIABLES
    params,                 \* [Cells -> BasicParams]      Arc<RwLock<BasicParams>>
    gyro,                   \* [Cells -> GyroSource]
    lens,                   \* [Cells -> LensProfile]
    undistortion,           \* [Cells -> Undistortion]
    smoothing,              \* Smoothing of the original
    pose_estimator,         \* cached sync results of the original
    current_compute_id,     \* AtomicU64
    smoothness_checksum,    \* AtomicU64
    adaptive_zoom_checksum, \* AtomicU64
    stab,                   \* the render clone: None, or Some of its handles and T
    THREAD_POOL,            \* the spawned closures, in submission order
    ui,                     \* the caller thread: where it is in which call
    ret,                    \* what the last finished call returned and touched
    hist,                   \* history: what each job wrote, its callback
    rwlock,                 \* [Locks -> writer and readers]  the RwLock of each subsystem
    threads,                \* [Threads -> op, pc]        where each thread is in its locking
    other                   \* a second caller thread: where it is in recompute_threaded

vars == << params, gyro, lens, undistortion, smoothing, pose_estimator,
           current_compute_id, smoothness_checksum, adaptive_zoom_checksum,
           stab, THREAD_POOL, ui, ret, hist, rwlock, threads, other >>

\* What the subsystems hold, as against who holds their locks.
data == << params, gyro, lens, undistortion, smoothing, pose_estimator,
           current_compute_id, smoothness_checksum, adaptive_zoom_checksum,
           stab, THREAD_POOL, ui, ret, hist >>

\* What the threads beside the caller `ui` are at: the locks they hold, and
\* the second caller.
locking == << rwlock, threads, other >>

\* The RwLock-guarded fields of the struct (lines 117-126).
Locks == {"params", "gyro", "smoothing", "undistortion", "lens"}

\* The threads that call into one orchestrator, and the pool's worker.
MaxThreads == 2
Worker == 0
Callers == 1..MaxThreads
Threads == {Worker} \cup Callers

Unlocked == [writer |-> None, readers |-> {}]
\* A thread outside every operation; `queued` counts the closures the
\* worker was handed and has not begun.
NotCalling == [op |-> "idle", pc |-> 0, queued |-> 0]

shared == << params, gyro, lens, undistortion, smoothing, pose_estimator,
             smoothness_checksum, adaptive_zoom_checksum >>

Targets == {"gyro", "fovs", "undistortion", "smoothness_checksum", "adaptive_zoom_checksum"}

NoJobHist == [returned |-> None, wrote |-> {}, cb |-> 0, cb_arg |-> None, cb_at |-> 0,
              found_stale |-> FALSE, passed |-> {},
              before_C_at_next |-> FALSE, ran |-> {}]

NoRet == [op |-> "none"]

\* The second caller before its call; `slot` is where its closure went in
\* the pool, `later` whether it took its snapshot with the caller's already
\* taken, `overlapped` whether the two calls ran side by side.
OtherIdle == [pc |-> "idle", loc |-> None, slot |-> 0, later |-> FALSE, overlapped |-> FALSE]

Init ==
    /\ params = [c \in Cells |-> DefaultBasicParams]
    /\ gyro = [c \in Cells |-> GyroSource_new]
    /\ lens = [c \in Cells |-> LensProfile_default]
    /\ undistortion = [c \in Cells |-> Undistortion_default]
    /\ smoothing = Smoothing_default
    /\ pose_estimator = [sync_results |-> 0]
    /\ current_compute_id = 0
    /\ smoothness_checksum = 0
    /\ adaptive_zoom_checksum = 0
    /\ stab = None
    /\ THREAD_POOL = <<>>
    /\ ui = [pc |-> "idle", calls |-> 0, loc |-> None]
    /\ ret = NoRet
    /\ hist = [job |-> [j \in Slots |-> NoJobHist],
               writer |-> [t \in Targets |-> 0],
               cleared |-> None, on |-> 0, sized |-> FALSE]
    /\ rwlock = [l \in Locks |-> Unlocked]
    /\ threads = [t \in Threads |-> NotCalling]
    /\ other = OtherIdle

\* ------------------------------------------------- the spawned closure
\* lines 334, 348, 356: `if current_compute_id.load(Relaxed) != compute_id { return; }`
CheckpointNext_NoReturn(j, next) == next

CheckpointNext(j, next) ==
    IF current_compute_id # THREAD_POOL[j].compute_id THEN "return" ELSE next

Running(j) == j \in 1..Len(THREAD_POOL)

Checkpoint(j, at, next) ==
    /\ Running(j)
    /\ THREAD_POOL[j].pc = at
    /\ THREAD_POOL' = [THREAD_POOL EXCEPT ![j].pc = CheckpointNext(j, next)]
    /\ hist' = [hist EXCEPT
                  !.job[j].found_stale = @ \/ current_compute_id # THREAD_POOL[j].compute_id,
                  !.job[j].passed = IF current_compute_id = THREAD_POOL[j].compute_id
                                    THEN @ \cup {at} ELSE @]
    /\ UNCHANGED << shared, current_compute_id, stab, ui, ret >>
    /\ UNCHANGED locking

JobCheckpointA(j) == Checkpoint(j, "A", "S1_check")
JobCheckpointB(j) == Checkpoint(j, "B", "S2_check")
JobCheckpointC(j) == Checkpoint(j, "C", "S3")

\* What a job's write adds to the history.
Wrote(j, t) ==
    [hist EXCEPT !.job[j].wrote = @ \cup {t}, !.writer[t] = j]

\* line 337: the stage runs only when the smoothing fingerprint moved.
Stage1Needed_Always(j) == TRUE

Stage1Needed(j) == smoothing_get_state_checksum(smoothing) # smoothness_checksum

JobStage1Check(j) ==
    /\ Running(j)
    /\ THREAD_POOL[j].pc = "S1_check"
    /\ THREAD_POOL' = [THREAD_POOL EXCEPT
                          ![j].pc = IF Stage1Needed(j) THEN "S1_clone" ELSE "B"]
    /\ UNCHANGED << shared, current_compute_id, stab, ui, ret, hist >>
    /\ UNCHANGED locking

\* line 338: `smoothing.write().current().clone()`
JobStage1Clone(j) ==
    /\ Running(j)
    /\ THREAD_POOL[j].pc = "S1_clone"
    /\ THREAD_POOL' = [THREAD_POOL EXCEPT ![j].pc = "S1_write",
                                          ![j].alg = Some(current(smoothing))]
    /\ UNCHANGED << shared, current_compute_id, stab, ui, ret, hist >>
    /\ UNCHANGED locking

\* lines 339-345: smooth the private gyro, then copy its three quaternion
\* sequences into the shared gyro under its write lock.
JobStage1Write(j) ==
    /\ Running(j)
    /\ THREAD_POOL[j].pc = "S1_write"
    /\ LET g == gyro_recompute_smoothness(THREAD_POOL[j].params.gyro, THREAD_POOL[j].alg[1])
       IN  /\ THREAD_POOL' = [THREAD_POOL EXCEPT ![j].pc = "B",
                                                 ![j].params.gyro = g,
                                                 ![j].smoothing_changed = TRUE]
           /\ gyro' = [gyro EXCEPT
                         ![Self.gyro].quaternions = g.quaternions,
                         ![Self.gyro].smoothed_quaternions = g.smoothed_quaternions,
                         ![Self.gyro].org_smoothed_quaternions = g.org_smoothed_quaternions]
    /\ hist' = [Wrote(j, "gyro") EXCEPT !.job[j].ran = @ \cup {1}]
    /\ UNCHANGED << params, lens, undistortion, smoothing, pose_estimator,
                    current_compute_id, smoothness_checksum, adaptive_zoom_checksum,
                    stab, ui, ret >>
    /\ UNCHANGED locking

\* line 350
Stage2Needed_ZoomOnly(j) ==
    zoom_get_state_checksum(THREAD_POOL[j].zoom) # adaptive_zoom_checksum

Stage2Needed(j) ==
    \/ THREAD_POOL[j].smoothing_changed
    \/ zoom_get_state_checksum(THREAD_POOL[j].zoom) # adaptive_zoom_checksum

JobStage2Check(j) ==
    /\ Running(j)
    /\ THREAD_POOL[j].pc = "S2_check"
    /\ THREAD_POOL' = [THREAD_POOL EXCEPT
                          ![j].pc = IF Stage2Needed(j) THEN "S2_compute" ELSE "C"]
    /\ UNCHANGED << shared, current_compute_id, stab, ui, ret, hist >>
    /\ UNCHANGED locking

\* lines 351-352: the fovs of the private gyro, under the shared params.
JobStage2Compute(j) ==
    /\ Running(j)
    /\ THREAD_POOL[j].pc = "S2_compute"
    /\ THREAD_POOL' = [THREAD_POOL EXCEPT
          ![j].pc = "S2_write",
          ![j].params.fovs = recompute_adaptive_zoom_static(
                                 THREAD_POOL[j].zoom, params[Self.params],
                                 THREAD_POOL[j].params.gyro)]
    /\ UNCHANGED << shared, current_compute_id, stab, ui, ret, hist >>
    /\ UNCHANGED locking

\* line 353: `basic_params.write().fovs = params.fovs.clone()`
JobStage2Write(j) ==
    /\ Running(j)
    /\ THREAD_POOL[j].pc = "S2_write"
    /\ THREAD_POOL' = [THREAD_POOL EXCEPT ![j].pc = "C"]
    /\ params' = [params EXCEPT ![Self.params].fovs = THREAD_POOL[j].params.fovs]
    /\ hist' = [Wrote(j, "fovs") EXCEPT !.job[j].ran = @ \cup {2}]
    /\ UNCHANGED << gyro, lens, undistortion, smoothing, pose_estimator,
                    current_compute_id, smoothness_checksum, adaptive_zoom_checksum,
                    stab, ui, ret >>
    /\ UNCHANGED locking

\* Undistortion::set_compute_params: the engine computes from these from now on.
set_compute_params(u, cp) == [u EXCEPT !.compute_params = Some(cp)]

\* line 358
JobStage3(j) ==
    /\ Running(j)
    /\ THREAD_POOL[j].pc = "S3"
    /\ THREAD_POOL' = [THREAD_POOL EXCEPT ![j].pc = "F1"]
    /\ undistortion' = [undistortion EXCEPT
          ![Self.undistortion] = set_compute_params(@, THREAD_POOL[j].params)]
    /\ hist' = Wrote(j, "undistortion")
    /\ UNCHANGED << params, gyro, lens, smoothing, pose_estimator,
                    current_compute_id, smoothness_checksum, adaptive_zoom_checksum,
                    stab, ui, ret >>
    /\ UNCHANGED locking

\* line 360: the fingerprint of the smoothing state as it is now.
JobFinalizeSmoothness(j) ==
    /\ Running(j)
    /\ THREAD_POOL[j].pc = "F1"
    /\ THREAD_POOL' = [THREAD_POOL EXCEPT ![j].pc = "F2"]
    /\ smoothness_checksum' = smoothing_get_state_checksum(smoothing)
    /\ hist' = Wrote(j, "smoothness_checksum")
    /\ UNCHANGED << params, gyro, lens, undistortion, smoothing, pose_estimator,
                    current_compute_id, adaptive_zoom_checksum, stab, ui, ret >>
    /\ UNCHANGED locking

\* line 361: the fingerprint of the job's own zoom.
JobFinalizeZoom(j) ==
    /\ Running(j)
    /\ THREAD_POOL[j].pc = "F2"
    /\ THREAD_POOL' = [THREAD_POOL EXCEPT ![j].pc = "cb"]
    /\ adaptive_zoom_checksum' = zoom_get_state_checksum(THREAD_POOL[j].zoom)
    /\ hist' = Wrote(j, "adaptive_zoom_checksum")
    /\ UNCHANGED << params, gyro, lens, undistortion, smoothing, pose_estimator,
                    current_compute_id, smoothness_checksum, stab, ui, ret >>
    /\ UNCHANGED locking

\* line 362: `cb(compute_id)`
JobCallback(j) ==
    /\ Running(j)
    /\ THREAD_POOL[j].pc = "cb"
    /\ THREAD_POOL' = [THREAD_POOL EXCEPT ![j].pc = "done"]
    /\ hist' = [hist EXCEPT !.job[j].cb = @ + 1,
                            !.job[j].cb_arg = Some(THREAD_POOL[j].compute_id),
                            !.job[j].cb_at = Len(THREAD_POOL)]
    /\ UNCHANGED << shared, current_compute_id, stab, ui, ret >>
    /\ UNCHANGED locking

JobStep(j) ==
    \/ JobCheckpointA(j)
    \/ JobStage1Check(j)
    \/ JobStage1Clone(j)
    \/ JobStage1Write(j)
    \/ JobCheckpointB(j)
    \/ JobStage2Check(j)
    \/ JobStage2Compute(j)
    \/ JobStage2Write(j)
    \/ JobCheckpointC(j)
    \/ JobStage3(j)
    \/ JobFinalizeSmoothness(j)
    \/ JobFinalizeZoom(j)
    \/ JobCallback(j)

\* ------------------------------------------------------ the caller thread
\* Between two calls; ui.calls counts the calls begun besides
\* recompute_threaded.
Idle == ui.pc = "idle"
Begin == Idle

\* The caller is inside a call: at `pc`, with locals `loc`.
Goto(pc, loc) == [pc |-> pc, calls |-> ui.calls, loc |-> loc]
Enter(pc, loc) == [pc |-> pc, calls |-> ui.calls + 1, loc |-> loc]
Called == [pc |-> "idle", calls |-> ui.calls + 1, loc |-> None]
Returned == [pc |-> "idle", calls |-> ui.calls, loc |-> None]

\* The caller's write of one of the job targets.
CallerWrote(ts) == [hist EXCEPT !.writer = [t \in Targets |-> IF t \in ts THEN 0 ELSE @[t]]]

\* A setter or a load begins: the time after the last clear() is over.
Setter(h) == [h EXCEPT !.cleared = None, !.on = 0, !.sized = FALSE]

\* Another call of the original begins.
Call(h) == [h EXCEPT !.on = 0, !.sized = FALSE]

\* A call on orchestrator m begins.
SetterOn(m) == [hist EXCEPT !.cleared = IF m = Self THEN None ELSE @,
                            !.on = m.params, !.sized = FALSE]

\* lines 317-322: the private ComputeParams and AdaptiveZoom of the job.
recompute_threaded_snapshot ==
    /\ Idle
    /\ Len(THREAD_POOL) < MaxJobs
    /\ ui' = Goto("rt_submit",
                  [params |-> ComputeParams_from_manager(params[Self.params], gyro[Self.gyro], lens[Self.lens]),
                   zoom |-> AdaptiveZoom_from_manager(params[Self.params])])
    /\ hist' = Call(hist)
    /\ UNCHANGED << shared, current_compute_id, stab, THREAD_POOL, ret >>
    /\ UNCHANGED locking

\* A job is past checkpoint C once it is at stage 3 or beyond.
BeforeC(pc) == pc \in {"A", "S1_check", "S1_clone", "S1_write", "B", "S2_check",
                       "S2_compute", "S2_write", "C"}

\* lines 324-364: draw the id, store it as current, spawn the closure,
\* return the id.
recompute_threaded_submit ==
    /\ ui.pc = "rt_submit"
    /\ \E compute_id \in Ids :
         /\ current_compute_id' = compute_id
         /\ THREAD_POOL' = Append(THREAD_POOL,
                [compute_id |-> compute_id, pc |-> "A", params |-> ui.loc.params,
                 zoom |-> ui.loc.zoom, smoothing_changed |-> FALSE, alg |-> None])
         /\ hist' = [hist EXCEPT !.job = [j \in Slots |->
                       IF j \in 1..Len(THREAD_POOL) /\ BeforeC(THREAD_POOL[j].pc)
                       THEN [@[j] EXCEPT !.before_C_at_next = TRUE]
                       ELSE IF j = Len(THREAD_POOL) + 1
                       THEN [@[j] EXCEPT !.returned = Some(compute_id)]
                       ELSE @[j]]]
    /\ ui' = Returned
    /\ UNCHANGED << shared, stab, ret >>
    /\ UNCHANGED locking

\* lines 317-322 on a second thread, the caller being anywhere in a call
\* of its own.
other_recompute_threaded_snapshot ==
    /\ other.pc = "idle"
    /\ Len(THREAD_POOL) + (IF ui.pc = "rt_submit" THEN 1 ELSE 0) < MaxJobs
    /\ other' = [other EXCEPT !.pc = "rt_submit",
                              !.loc = [params |-> ComputeParams_from_manager(params[Self.params], gyro[Self.gyro], lens[Self.lens]),
                                       zoom |-> AdaptiveZoom_from_manager(params[Self.params]),
                                       len |-> Len(THREAD_POOL)],
                              !.later = (ui.pc = "rt_submit")]
    /\ UNCHANGED << data, rwlock, threads >>

\* lines 324-332 and 364 on the second thread.
other_recompute_threaded_submit ==
    /\ other.pc = "rt_submit"
    /\ \E compute_id \in Ids :
         /\ current_compute_id' = compute_id
         /\ THREAD_POOL' = Append(THREAD_POOL,
                [compute_id |-> compute_id, pc |-> "A", params |-> other.loc.params,
                 zoom |-> other.loc.zoom, smoothing_changed |-> FALSE, alg |-> None])
         /\ hist' = [hist EXCEPT !.job = [j \in Slots |->
                        IF j \in 1..Len(THREAD_POOL) /\ BeforeC(THREAD_POOL[j].pc)
                        THEN [@[j] EXCEPT !.before_C_at_next = TRUE]
                        ELSE IF j = Len(THREAD_POOL) + 1
                             THEN [@[j] EXCEPT !.returned = Some(compute_id)]
                             ELSE @[j]]]
    /\ other' = [pc |-> "idle", loc |-> None, slot |-> Len(THREAD_POOL) + 1,
                 later |-> other.later,
                 overlapped |-> \/ other.later
                                \/ ui.pc = "rt_submit"
                                \/ Len(THREAD_POOL) > other.loc.len]
    /\ UNCHANGED << shared, stab, ret, ui, rwlock, threads >>

\* lines 534-538
set_smoothing_method(index) ==
    /\ Begin
    /\ smoothing' = [smoothing EXCEPT !.current = index]
    /\ ui' = Called
    /\ hist' = Setter(hist)
    /\ UNCHANGED << params, gyro, lens, undistortion, pose_estimator, current_compute_id,
                    smoothness_checksum, adaptive_zoom_checksum, stab, THREAD_POOL, ret >>
    /\ UNCHANGED locking

\* lines 539-541
set_smoothing_param(val) ==
    /\ Begin
    /\ smoothing' = [smoothing EXCEPT !.param = val]
    /\ ui' = Called
    /\ hist' = Setter(hist)
    /\ UNCHANGED << params, gyro, lens, undistortion, pose_estimator, current_compute_id,
                    smoothness_checksum, adaptive_zoom_checksum, stab, THREAD_POOL, ret >>
    /\ UNCHANGED locking

\* A one-field setter of BasicParams on orchestrator m (lines 484-494).
SetParam(m, p) ==
    /\ Begin
    /\ params' = [params EXCEPT ![m.params] = p]
    /\ ui' = Called
    /\ hist' = SetterOn(m)
    /\ UNCHANGED << gyro, lens, undistortion, smoothing, pose_estimator, current_compute_id,
                    smoothness_checksum, adaptive_zoom_checksum, stab, THREAD_POOL, ret >>
    /\ UNCHANGED locking

set_video_rotation(m, v) == SetParam(m, [params[m.params] EXCEPT !.video_rotation = v])
set_trim_start(m, v) == SetParam(m, [params[m.params] EXCEPT !.trim_start = v])
set_trim_end(m, v) == SetParam(m, [params[m.params] EXCEPT !.trim_end = v])
set_show_detected_features(m, v) == SetParam(m, [params[m.params] EXCEPT !.show_detected_features = v])
set_show_optical_flow(m, v) == SetParam(m, [params[m.params] EXCEPT !.show_optical_flow = v])
set_stab_enabled(m, v) == SetParam(m, [params[m.params] EXCEPT !.stab_enabled = v])
set_frame_readout_time(m, v) == SetParam(m, [params[m.params] EXCEPT !.frame_readout_time = v])
set_adaptive_zoom(m, v) == SetParam(m, [params[m.params] EXCEPT !.adaptive_zoom_window = v])
set_fov(m, v) == SetParam(m, [params[m.params] EXCEPT !.fov = v])

\* A path handed to a load: its extension, what reading it gives ("ok", or
\* no file, or a file that does not parse, or telemetry no parser knows),
\* and what was read: telemetry file number `content`, or a structured
\* document holding quaternions `content` whose frame_orientation and
\* raw_imu keys are absent (None) or arrays of tuples of so many numbers.
TupleLens == {5, 6, 7}
Arrays == {None} \cup { Some(n) : n \in TupleLens }

TelemetryFile(f) == [gyroflow |-> FALSE, read |-> "ok", content |-> f]
Unsupported == [gyroflow |-> FALSE, read |-> "unsupported", content |-> 0]
Missing(g) == [gyroflow |-> g, read |-> "missing", content |-> 0]
Malformed == [gyroflow |-> TRUE, read |-> "malformed", content |-> 0]
Document(fo, imu, f) ==
    [gyroflow |-> TRUE, read |-> "ok", content |-> f, frame_orientation |-> fo, raw_imu |-> imu]

Paths ==
    { TelemetryFile(f) : f \in Files } \cup { Unsupported, Malformed } \cup { Missing(g) : g \in BOOLEAN }
    \cup { Document(fo, imu, f) : fo \in Arrays, imu \in Arrays, f \in Files }

\* lines 200 and 204: the highest index the closures take of a tuple,
\* `x[6-1]` of frame_orientation and `x[6]` of raw_imu.
frame_orientation_index == 5
raw_imu_index == 6

\* Vec<f64> indexing: an index at or past the length panics.
IndexPanics(len, index) == index >= len

\* lines 194-217: what try_block! comes to for a parsed document: the
\* arrays are taken in order, an absent one ends the block, a tuple too
\* short for its closure panics, and with both mapped the gyro is loaded.
try_block(doc) ==
    IF doc.frame_orientation = None THEN "skip"
    ELSE IF IndexPanics(doc.frame_orientation[1], frame_orientation_index) THEN "panic"
    ELSE IF doc.raw_imu = None THEN "skip"
    ELSE IF IndexPanics(doc.raw_imu[1], raw_imu_index) THEN "panic"
    ELSE "load"

\* lines 179-184: `gyro.init_from_params(&params)` under both locks.
LoadInit(path, caller) ==
    /\ gyro' = [gyro EXCEPT ![Self.gyro] = init_from_params(@, params[Self.params])]
    /\ ui' = [pc |-> "lg_read", calls |-> ui.calls + (IF caller = "load_gyro_data" THEN 1 ELSE 0),
              loc |-> [path |-> path, caller |-> caller]]

load_gyro_data(path) ==
    /\ Begin
    /\ LoadInit(path, "load_gyro_data")
    /\ hist' = Setter(hist)
    /\ UNCHANGED << params, lens, undistortion, smoothing, pose_estimator, current_compute_id,
                    smoothness_checksum, adaptive_zoom_checksum, stab, THREAD_POOL, ret >>
    /\ UNCHANGED locking

\* What the call that started the load returns: load_gyro_data its own
\* result, init_from_video_data Ok whatever the load said (lines 174-176).
LoadResult(r) ==
    IF ui.loc.caller = "init_from_video_data"
    THEN [op |-> "init_from_video_data", val |-> "Ok", load |-> r, path |-> ui.loc.path]
    ELSE [op |-> "load_gyro_data", val |-> r, load |-> r, path |-> ui.loc.path]

\* A panic unwinds through load_gyro_data and its caller: no value is
\* returned and the calling thread is gone.
LoadPanicked == [op |-> ui.loc.caller, val |-> "panic", load |-> "panic", path |-> ui.loc.path]
Panicked == [pc |-> "panicked", calls |-> ui.calls, loc |-> None]

\* lines 186-205 and 219-224: read and parse the file.  A `?` returns Err;
\* a structured document loads its lens profile and goes through
\* try_block!.
load_gyro_data_read ==
    /\ ui.pc = "lg_read"
    /\ LET path == ui.loc.path
       IN  IF path.read # "ok"
           THEN /\ ui' = Returned
                /\ ret' = LoadResult("Err")
                /\ UNCHANGED lens
           ELSE IF path.gyroflow
           THEN /\ lens' = [lens EXCEPT ![Self.lens] = 1]
                /\ CASE try_block(path) = "skip"  -> ui' = Returned /\ ret' = LoadResult("Ok")
                     [] try_block(path) = "panic" -> ui' = Panicked /\ ret' = LoadPanicked
                     [] try_block(path) = "load"  -> ui' = Goto("lg_load", ui.loc) /\ UNCHANGED ret
           ELSE /\ UNCHANGED lens
                /\ ui' = Goto("lg_load", ui.loc)
                /\ UNCHANGED ret
    /\ UNCHANGED << params, gyro, undistortion, smoothing, pose_estimator, current_compute_id,
                    smoothness_checksum, adaptive_zoom_checksum, stab, THREAD_POOL, hist >>
    /\ UNCHANGED locking

\* lines 215 and 225-226: `gyro.write().load_from_telemetry(&md)`, and for
\* a telemetry file its frame readout time into params.
load_gyro_data_load ==
    /\ ui.pc = "lg_load"
    /\ gyro' = [gyro EXCEPT ![Self.gyro] = load_from_telemetry(@, ui.loc.path.content)]
    /\ params' = IF ui.loc.path.gyroflow THEN params
                 ELSE [params EXCEPT ![Self.params].frame_readout_time = 0]
    /\ hist' = CallerWrote({"gyro"})
    /\ ui' = Goto("lg_checksum", ui.loc)
    /\ UNCHANGED << lens, undistortion, smoothing, pose_estimator, current_compute_id,
                    smoothness_checksum, adaptive_zoom_checksum, stab, THREAD_POOL, ret >>
    /\ UNCHANGED locking

\* lines 216 and 227-232: the smoothing takes the checksum of the shared
\* gyro's quaternions as they are now.
load_gyro_data_checksum ==
    /\ ui.pc = "lg_checksum"
    /\ smoothing' = [smoothing EXCEPT !.quats_checksum = gyro[Self.gyro].quaternions]
    /\ ui' = Returned
    /\ ret' = LoadResult("Ok")
    /\ UNCHANGED << params, gyro, lens, undistortion, pose_estimator, current_compute_id,
                    smoothness_checksum, adaptive_zoom_checksum, stab, THREAD_POOL, hist >>
    /\ UNCHANGED locking

\* lines 163-174: store the video's data, drop the sync results, then load.
init_from_video_data(path, duration_ms, fps, frame_count, video_size) ==
    /\ Begin
    /\ params' = [params EXCEPT ![Self.params].fps = fps,
                                ![Self.params].frame_count = frame_count,
                                ![Self.params].duration_ms = duration_ms,
                                ![Self.params].video_size = video_size]
    /\ pose_estimator' = [sync_results |-> 0]
    /\ ui' = Enter("ifv_load", [path |-> path, caller |-> "init_from_video_data"])
    /\ hist' = Setter(hist)
    /\ UNCHANGED << gyro, lens, undistortion, smoothing, current_compute_id,
                    smoothness_checksum, adaptive_zoom_checksum, stab, THREAD_POOL, ret >>
    /\ UNCHANGED locking

init_from_video_data_load ==
    /\ ui.pc = "ifv_load"
    /\ LoadInit(ui.loc.path, "init_from_video_data")
    /\ UNCHANGED << params, lens, undistortion, smoothing, pose_estimator, current_compute_id,
                    smoothness_checksum, adaptive_zoom_checksum, stab, THREAD_POOL, ret, hist >>
    /\ UNCHANGED locking

\* lines 576-585: the override scale, then the gyro re-initialised from the
\* params, both under the params write lock.
override_video_fps(fps) ==
    /\ Begin
    /\ LET p == [params[Self.params] EXCEPT
                    !.fps_scale = IF fps # params[Self.params].fps
                                  THEN Some(<<fps, params[Self.params].fps>>) ELSE None]
       IN  /\ params' = [params EXCEPT ![Self.params] = p]
           /\ gyro' = [gyro EXCEPT ![Self.gyro] = init_from_params(@, p)]
    /\ ui' = Enter("ov_undistortion", None)
    /\ hist' = Setter(hist)
    /\ UNCHANGED << lens, undistortion, smoothing, pose_estimator, current_compute_id,
                    smoothness_checksum, adaptive_zoom_checksum, stab, THREAD_POOL, ret >>
    /\ UNCHANGED locking

\* line 587
override_video_fps_undistortion ==
    /\ ui.pc = "ov_undistortion"
    /\ undistortion' = [undistortion EXCEPT ![Self.undistortion] =
          set_compute_params(@, ComputeParams_from_manager(params[Self.params], gyro[Self.gyro], lens[Self.lens]))]
    /\ hist' = CallerWrote({"undistortion"})
    /\ ui' = Goto("ov_smoothness", None)
    /\ UNCHANGED << params, gyro, lens, smoothing, pose_estimator, current_compute_id,
                    smoothness_checksum, adaptive_zoom_checksum, stab, THREAD_POOL, ret >>
    /\ UNCHANGED locking

\* line 589
override_video_fps_smoothness ==
    /\ ui.pc = "ov_smoothness"
    /\ smoothness_checksum' = 0
    /\ hist' = CallerWrote({"smoothness_checksum"})
    /\ ui' = Goto("ov_zoom", None)
    /\ UNCHANGED << params, gyro, lens, undistortion, smoothing, pose_estimator,
                    current_compute_id, adaptive_zoom_checksum, stab, THREAD_POOL, ret >>
    /\ UNCHANGED locking

\* line 590
override_video_fps_zoom ==
    /\ ui.pc = "ov_zoom"
    /\ adaptive_zoom_checksum' = 0
    /\ hist' = CallerWrote({"adaptive_zoom_checksum"})
    /\ ui' = Returned
    /\ UNCHANGED << params, gyro, lens, undistortion, smoothing, pose_estimator,
                    current_compute_id, smoothness_checksum, stab, THREAD_POOL, ret >>
    /\ UNCHANGED locking

\* lines 563-571: the six preserved fields over fresh defaults.
cleared(p) ==
    [DefaultBasicParams EXCEPT
        !.stab_enabled = p.stab_enabled,
        !.show_detected_features = p.show_detected_features,
        !.show_optical_flow = p.show_optical_flow,
        !.background = p.background,
        !.adaptive_zoom_window = p.adaptive_zoom_window,
        !.framebuffer_inverted = p.framebuffer_inverted]

clear ==
    /\ Begin
    /\ params' = [params EXCEPT ![Self.params] = cleared(@)]
    /\ hist' = Call(CallerWrote({"fovs"}))
    /\ ui' = Enter("cl_gyro", [before |-> params[Self.params]])
    /\ UNCHANGED << gyro, lens, undistortion, smoothing, pose_estimator, current_compute_id,
                    smoothness_checksum, adaptive_zoom_checksum, stab, THREAD_POOL, ret >>
    /\ UNCHANGED locking

\* line 572
clear_gyro ==
    /\ ui.pc = "cl_gyro"
    /\ gyro' = [gyro EXCEPT ![Self.gyro] = GyroSource_new]
    /\ hist' = CallerWrote({"gyro"})
    /\ ui' = Goto("cl_pose", ui.loc)
    /\ UNCHANGED << params, lens, undistortion, smoothing, pose_estimator, current_compute_id,
                    smoothness_checksum, adaptive_zoom_checksum, stab, THREAD_POOL, ret >>
    /\ UNCHANGED locking

\* line 573
clear_pose_Cancels ==
    /\ ui.pc = "cl_pose"
    /\ pose_estimator' = [sync_results |-> 0]
    /\ current_compute_id' = (current_compute_id + 1) % (MaxId + 1)
    /\ ui' = Returned
    /\ hist' = [hist EXCEPT !.cleared = Some(ui.loc.before)]
    /\ UNCHANGED << params, gyro, lens, undistortion, smoothing,
                    smoothness_checksum, adaptive_zoom_checksum, stab, THREAD_POOL, ret >>
    /\ UNCHANGED locking

clear_pose ==
    /\ ui.pc = "cl_pose"
    /\ pose_estimator' = [sync_results |-> 0]
    /\ ui' = Returned
    /\ hist' = [hist EXCEPT !.cleared = Some(ui.loc.before)]
    /\ UNCHANGED << params, gyro, lens, undistortion, smoothing, current_compute_id,
                    smoothness_checksum, adaptive_zoom_checksum, stab, THREAD_POOL, ret >>
    /\ UNCHANGED locking

\* lines 299-301 (from line 309): both write locks held.
recompute_blocking_IfChanged ==
    /\ Begin
    /\ gyro' = IF smoothing_get_state_checksum(smoothing) = smoothness_checksum
               THEN gyro
               ELSE [gyro EXCEPT ![Self.gyro] = gyro_recompute_smoothness(@, current(smoothing))]
    /\ hist' = Call(CallerWrote({"gyro"}))
    /\ ui' = Enter("rb_zoom_read", [smoothed |-> gyro'[Self.gyro]])
    /\ UNCHANGED << params, lens, undistortion, smoothing, pose_estimator, current_compute_id,
                    smoothness_checksum, adaptive_zoom_checksum, stab, THREAD_POOL, ret >>
    /\ UNCHANGED locking

recompute_blocking ==
    /\ Begin
    /\ gyro' = [gyro EXCEPT ![Self.gyro] = gyro_recompute_smoothness(@, current(smoothing))]
    /\ hist' = Call(CallerWrote({"gyro"}))
    /\ ui' = Enter("rb_zoom_read", [smoothed |-> gyro'[Self.gyro]])
    /\ UNCHANGED << params, lens, undistortion, smoothing, pose_estimator, current_compute_id,
                    smoothness_checksum, adaptive_zoom_checksum, stab, THREAD_POOL, ret >>
    /\ UNCHANGED locking

\* lines 294 and 274-277: the zoom and (window, frames, fps) off the params.
recompute_blocking_zoom_read ==
    /\ ui.pc = "rb_zoom_read"
    /\ ui' = Goto("rb_zoom_compute",
                  [zoom |-> AdaptiveZoom_from_manager(params[Self.params]), p |-> params[Self.params],
                   smoothed |-> ui.loc.smoothed])
    /\ UNCHANGED << shared, current_compute_id, stab, THREAD_POOL, ret, hist >>
    /\ UNCHANGED locking

\* lines 279-288: the quaternions off the shared gyro, and the fovs.
recompute_blocking_zoom_compute ==
    /\ ui.pc = "rb_zoom_compute"
    /\ ui' = Goto("rb_zoom_write",
                  [fovs |-> recompute_adaptive_zoom_static(ui.loc.zoom, ui.loc.p, gyro[Self.gyro]),
                   smoothed |-> ui.loc.smoothed])
    /\ UNCHANGED << shared, current_compute_id, stab, THREAD_POOL, ret, hist >>
    /\ UNCHANGED locking

\* line 296
recompute_blocking_zoom_write ==
    /\ ui.pc = "rb_zoom_write"
    /\ params' = [params EXCEPT ![Self.params].fovs = ui.loc.fovs]
    /\ hist' = CallerWrote({"fovs"})
    /\ ui' = Goto("rb_snapshot", [fovs |-> ui.loc.fovs, smoothed |-> ui.loc.smoothed])
    /\ UNCHANGED << gyro, lens, undistortion, smoothing, pose_estimator, current_compute_id,
                    smoothness_checksum, adaptive_zoom_checksum, stab, THREAD_POOL, ret >>
    /\ UNCHANGED locking

\* line 304
recompute_blocking_snapshot ==
    /\ ui.pc = "rb_snapshot"
    /\ ui' = Goto("rb_undistortion",
                  [params |-> ComputeParams_from_manager(params[Self.params], gyro[Self.gyro], lens[Self.lens]),
                   fovs |-> ui.loc.fovs, smoothed |-> ui.loc.smoothed])
    /\ UNCHANGED << shared, current_compute_id, stab, THREAD_POOL, ret, hist >>
    /\ UNCHANGED locking

\* line 305
recompute_blocking_undistortion ==
    /\ ui.pc = "rb_undistortion"
    /\ undistortion' = [undistortion EXCEPT ![Self.undistortion] = set_compute_params(@, ui.loc.params)]
    /\ hist' = CallerWrote({"undistortion"})
    /\ ui' = Returned
    /\ UNCHANGED << params, gyro, lens, smoothing, pose_estimator, current_compute_id,
                    smoothness_checksum, adaptive_zoom_checksum, stab, THREAD_POOL, ret >>
    /\ UNCHANGED locking

\* ------------------------------------------------------------------ sizes
\* usize::MAX, what a float too large for usize (or +inf) is cast to; it
\* is only ever compared, never computed with.
USIZE_MAX == 2147483647

RECURSIVE IsPow2(_)
IsPow2(n) == n = 1 \/ (n > 1 /\ n % 2 = 0 /\ IsPow2(n \div 2))

RECURSIVE Gcd(_, _)
Gcd(a, b) == IF b = 0 THEN a ELSE Gcd(b, a % b)

\* `(a as f64 * ratio) as usize` for ratio = `s as f64 / v as f64` (lines
\* 258-259, 266-267), as IEEE 754 and Rust's saturating cast give it:
\*   v = 0, s = 0: ratio is NaN, the product NaN, the cast 0;
\*   v = 0, s > 0: ratio is +inf; a = 0 gives NaN and 0, a > 0 usize::MAX;
\*   v > 0: the cast truncates.  A product that is not a whole number is
\*   truncated as the exact one is.  A whole product n of an inexact
\*   ratio (v / gcd(s, v) no power of two) may be rounded just below n,
\*   and then the cast gives n - 1: both are outcomes.
Scaled(a, s, v) ==
    IF v = 0
    THEN IF s = 0 \/ a = 0 THEN {0} ELSE {USIZE_MAX}
    ELSE LET n == (a * s) \div v
         IN  IF (a * s) % v = 0 /\ n > 0 /\ ~IsPow2(v \div Gcd(s, v))
             THEN {n - 1, n} ELSE {n}

\* lines 255-259: what set_size(width, height) may leave in the params.
set_size_params(p, width, height) ==
    { [p EXCEPT !.size = <<width, height>>, !.output_size = <<ow, oh>>] :
        ow \in Scaled(p.video_output_size[1], width, p.video_size[1]),
        oh \in Scaled(p.video_output_size[2], width, p.video_size[1]) }

\* lines 265-268: what set_output_size(width, height) may leave.
set_output_size_params(p, width, height) ==
    { [p EXCEPT !.output_size = <<ow, oh>>, !.video_output_size = <<width, height>>] :
        ow \in Scaled(width, p.size[1], p.video_size[1]),
        oh \in Scaled(height, p.size[1], p.video_size[1]) }

\* lines 239-251: the engine takes the sizes once all four are positive.
init_size(u, p) ==
    IF p.size[1] > 0 /\ p.output_size[1] > 0 /\ p.size[2] > 0 /\ p.output_size[2] > 0
    THEN [u EXCEPT !.size = Some([size |-> p.size, output_size |-> p.output_size]),
                   !.background = p.background]
    ELSE u

\* lines 253-262
set_size(m, width, height) ==
    /\ Begin
    /\ \E p \in set_size_params(params[m.params], width, height) :
         /\ params' = [params EXCEPT ![m.params] = p]
         /\ undistortion' = [undistortion EXCEPT ![m.undistortion] = init_size(@, p)]
    /\ ui' = Called
    /\ hist' = [SetterOn(m) EXCEPT !.sized = TRUE]
    /\ UNCHANGED << gyro, lens, smoothing, pose_estimator, current_compute_id,
                    smoothness_checksum, adaptive_zoom_checksum, stab, THREAD_POOL, ret >>
    /\ UNCHANGED locking

\* lines 263-271
set_output_size(m, width, height) ==
    /\ Begin
    /\ \E p \in set_output_size_params(params[m.params], width, height) :
         /\ params' = [params EXCEPT ![m.params] = p]
         /\ undistortion' = [undistortion EXCEPT ![m.undistortion] = init_size(@, p)]
    /\ ui' = Called
    /\ hist' = [SetterOn(m) EXCEPT !.sized = TRUE]
    /\ UNCHANGED << gyro, lens, smoothing, pose_estimator, current_compute_id,
                    smoothness_checksum, adaptive_zoom_checksum, stab, THREAD_POOL, ret >>
    /\ UNCHANGED locking

\* lines 496-497: the gyro's sync offsets.
set_offset(m, offset_ms) ==
    /\ Begin
    /\ gyro' = [gyro EXCEPT ![m.gyro].offsets = offset_ms]
    /\ ui' = Called
    /\ hist' = SetterOn(m)
    /\ UNCHANGED << params, lens, undistortion, smoothing, pose_estimator, current_compute_id,
                    smoothness_checksum, adaptive_zoom_checksum, stab, THREAD_POOL, ret >>
    /\ UNCHANGED locking

\* lines 508-527: one coefficient of a lens profile that has its matrices;
\* the default profile has none and is left alone.
set_lens_param(m, value) ==
    /\ Begin
    /\ lens' = [lens EXCEPT ![m.lens] = IF @ = LensProfile_default THEN @ ELSE 1 + value]
    /\ ui' = Called
    /\ hist' = SetterOn(m)
    /\ UNCHANGED << params, gyro, undistortion, smoothing, pose_estimator, current_compute_id,
                    smoothness_checksum, adaptive_zoom_checksum, stab, THREAD_POOL, ret >>
    /\ UNCHANGED locking

\* lines 235-237
load_lens_profile(m) ==
    /\ Begin
    /\ lens' = [lens EXCEPT ![m.lens] = 1]
    /\ ui' = Called
    /\ hist' = SetterOn(m)
    /\ UNCHANGED << params, gyro, undistortion, smoothing, pose_estimator, current_compute_id,
                    smoothness_checksum, adaptive_zoom_checksum, stab, THREAD_POOL, ret >>
    /\ UNCHANGED locking

\* lines 529-532
set_background_color(m, bg) ==
    /\ Begin
    /\ params' = [params EXCEPT ![m.params].background = bg]
    /\ undistortion' = [undistortion EXCEPT ![m.undistortion].background = bg]
    /\ ui' = Called
    /\ hist' = SetterOn(m)
    /\ UNCHANGED << gyro, lens, smoothing, pose_estimator, current_compute_id,
                    smoothness_checksum, adaptive_zoom_checksum, stab, THREAD_POOL, ret >>
    /\ UNCHANGED locking

\* ------------------------------------------------------------ render clone
\* lines 548-553: `Arc::new(RwLock::new(...clone()))`: cells of its own.
CloneHandles == [params |-> 1, gyro |-> 1, lens |-> 1, undistortion |-> 1]

\* lines 546-561.  The clone is built and sized before anyone else sees it.
get_render_stabilizator(output_size) ==
    /\ Begin
    /\ stab = None
    /\ LET h == CloneHandles
           size == params[Self.params].video_size
           g == [gyro EXCEPT ![h.gyro] = gyro[Self.gyro]]
           l == [lens EXCEPT ![h.lens] = lens[Self.lens]]
           p0 == [params[Self.params] EXCEPT !.framebuffer_inverted = FALSE]
       IN  \E p1 \in set_size_params(p0, size[1], size[2]) :
           \E p2 \in set_output_size_params(p1, output_size[1], output_size[2]) :
             /\ params' = [params EXCEPT ![h.params] = p2]
             /\ gyro' = g
             /\ lens' = l
             /\ undistortion' = [undistortion EXCEPT ![h.undistortion] =
                   set_compute_params(
                       init_size(init_size(Undistortion_default, p1), p2),
                       ComputeParams_from_manager(p2, g[h.gyro], l[h.lens]))]
             /\ stab' = Some(h)
    /\ ui' = Called
    /\ hist' = Call(hist)
    /\ ret' = [op |-> "get_render_stabilizator", output_size |-> output_size]
    /\ UNCHANGED << smoothing, pose_estimator, current_compute_id,
                    smoothness_checksum, adaptive_zoom_checksum, THREAD_POOL >>
    /\ UNCHANGED locking

\* ------------------------------------------------------------ render time
\* The synchronization module leaves detected features and optical flow
\* of the frames it analysed in the pose estimator.
pose_estimator_sync ==
    /\ Idle
    /\ pose_estimator.sync_results = 0
    /\ pose_estimator' = [sync_results |-> 1]
    /\ UNCHANGED << params, gyro, lens, undistortion, smoothing, current_compute_id,
                    smoothness_checksum, adaptive_zoom_checksum, stab, THREAD_POOL, ui, ret, hist >>
    /\ UNCHANGED locking

\* lines 410 and 478: the engine works from the compute parameters it
\* holds, those of the last set_compute_params.
engine_compute_params_InFlight(m) ==
    IF \E j \in 1..Len(THREAD_POOL) : BeforeC(THREAD_POOL[j].pc)
    THEN Some(THREAD_POOL[CHOOSE j \in 1..Len(THREAD_POOL) : BeforeC(THREAD_POOL[j].pc)].params)
    ELSE undistortion[m.undistortion].compute_params

engine_compute_params(m) == undistortion[m.undistortion].compute_params

\* line 432: `if enabled && ow == out_width && oh == out_height`
process_pixels_guard_NoHeight(enabled, ow, oh, out_width, out_height) ==
    enabled /\ ow = out_width

process_pixels_guard(enabled, ow, oh, out_width, out_height) ==
    enabled /\ ow = out_width /\ oh = out_height

\* lines 439-461: the overlays are drawn into RGBA8 buffers only, the
\* features when shown and found for the frame, the optical flow likewise.
draws_overlay(T, p) ==
    /\ T.COUNT = 4 /\ T.SCALAR_BYTES = 1
    /\ pose_estimator.sync_results > 0
    /\ p.show_detected_features \/ p.show_optical_flow

\* lines 427-482.  The engine's process_pixels says whether it corrected
\* the frame into out_pixels.
process_pixels(m, T, out_width, out_height) ==
    /\ Begin
    /\ LET p == params[m.params]
           enabled == p.stab_enabled
           ow == p.output_size[1]
           oh == p.output_size[2]
       IN  IF process_pixels_guard(enabled, ow, oh, out_width, out_height)
           THEN \E engine \in BOOLEAN :
                  ret' = [op |-> "process_pixels", val |-> engine,
                          enabled |-> enabled, output_size |-> <<ow, oh>>,
                          out_size |-> <<out_width, out_height>>,
                          pixels_drawn |-> draws_overlay(T, p),
                          engine_called |-> TRUE, engine |-> Some(engine),
                          out_pixels_written |-> engine,
                          compute_params |-> Some(engine_compute_params(m))]
           ELSE ret' = [op |-> "process_pixels", val |-> FALSE,
                        enabled |-> enabled, output_size |-> <<ow, oh>>,
                        out_size |-> <<out_width, out_height>>,
                        pixels_drawn |-> FALSE,
                        engine_called |-> FALSE, engine |-> None,
                        out_pixels_written |-> FALSE,
                        compute_params |-> None]
    /\ ui' = Called
    /\ hist' = Call(hist)
    /\ UNCHANGED << shared, current_compute_id, stab, THREAD_POOL >>
    /\ UNCHANGED locking

\* Undistortion::get_undistortion_data(timestamp_us): nothing, or the item
\* of the timestamp with `rows` 3x3 matrices of 9 scalars each.
undistortion_data == {None} \cup {Some(rows) : rows \in 0..MaxRows}

\* line 411: `if params_count <= out_size`
fits_Always(params_count, out_size) == TRUE

fits(params_count, out_size) == params_count <= out_size

\* lines 413-419: which source scalar lands in which destination slot:
\* the first 8 verbatim, then every group of 3 from scalar 9 on, the j-th
\* of them (from 2) at slot 4 j.
padded_copy_Packed(params_count) ==
    { <<d, d>> : d \in 0..7 }
    \cup { <<i - 1 + k, i + k>> :
             i \in { x \in 9..(params_count - 1) : (x - 9) % 3 = 0 }, k \in 0..2 }

padded_copy(params_count) ==
    { <<d, d>> : d \in 0..7 }
    \cup { <<4 * (2 + (i - 9) \div 3) + k, i + k>> :
             i \in { x \in 9..(params_count - 1) : (x - 9) % 3 = 0 }, k \in 0..2 }

\* lines 407-425: ret.written pairs each destination slot written with the
\* source scalar it got.
fill_undistortion_data_padded(m, out_size) ==
    /\ Begin
    /\ LET enabled == params[m.params].stab_enabled
       IN  \E itm \in undistortion_data :
             LET params_count == IF itm = None THEN 0 ELSE itm[1] * 9
                 ok == enabled /\ itm # None /\ fits(params_count, out_size)
             IN  ret' = [op |-> "fill_undistortion_data_padded", val |-> ok,
                         enabled |-> enabled,
                         itm |-> IF enabled THEN itm ELSE None,
                         engine_called |-> enabled,
                         compute_params |-> IF enabled THEN Some(engine_compute_params(m)) ELSE None,
                         out_size |-> out_size,
                         written |-> IF ok THEN padded_copy(params_count) ELSE {}]
    /\ ui' = Called
    /\ hist' = Call(hist)
    /\ UNCHANGED << shared, current_compute_id, stab, THREAD_POOL >>
    /\ UNCHANGED locking

\* ------------------------------------------------------- frame and time
\* An f64 that is a ratio of two integers, kept as <<numerator, denominator>>.
FrameRates == { <<1, 1>>, <<1, 2>>, <<2, 1>>, <<3, 2>>, <<30, 1>> }

\* `.round()` of the non-negative a / b: to the nearest, halves upwards.
Round(a, b) == (2 * a + b) \div (2 * b)

\* line 594: `frame as f64 * fps * 1000.0`
timestamp_at_frame(frame, fps) == << frame * fps[1] * 1000, fps[2] >>

\* line 595: `(timestamp_ms * (fps / 1000.0)).round() as i32`
frame_at_timestamp(timestamp_ms, fps) ==
    Round(timestamp_ms[1] * fps[1], timestamp_ms[2] * fps[2] * 1000)

\* A client asks for the timestamp of a frame ...
timestamp_at_frame_call(frame, fps) ==
    /\ Begin
    /\ ret' = [op |-> "timestamp_at_frame", frame |-> frame, fps |-> fps,
               val |-> timestamp_at_frame(frame, fps)]
    /\ ui' = Called
    /\ hist' = Call(hist)
    /\ UNCHANGED << shared, current_compute_id, stab, THREAD_POOL >>
    /\ UNCHANGED locking

\* ... and then for the frame of that timestamp, at the same rate.
frame_at_timestamp_call ==
    /\ Begin
    /\ ret.op = "timestamp_at_frame"
    /\ ret' = [op |-> "frame_at_timestamp", frame |-> ret.frame, fps |-> ret.fps,
               timestamp_ms |-> ret.val,
               val |-> frame_at_timestamp(ret.val, ret.fps)]
    /\ ui' = Called
    /\ hist' = Call(hist)
    /\ UNCHANGED << shared, current_compute_id, stab, THREAD_POOL >>
    /\ UNCHANGED locking

\* ---------------------------------------------------------------- locking
\* What an operation does to the locks, in the order it does it: a guard is
\* taken where `.read()` / `.write()` stands and given back where the guard
\* is dropped, a temporary at the end of its statement, a `let` at the end
\* of its block.
acq(l, m) == [k |-> "acq", l |-> l, m |-> m]
rel(l) == [k |-> "rel", l |-> l, m |-> "-"]
spawn == [k |-> "spawn", l |-> "-", m |-> "-"]

\* A statement that takes one guard and drops it.
Read(l) == << acq(l, "R"), rel(l) >>
Write(l) == << acq(l, "W"), rel(l) >>

\* undistortion::ComputeParams::from_manager(self): copies the params, the
\* gyro and the lens, each under its read lock.
from_manager_locks == Read("params") \o Read("gyro") \o Read("lens")

\* line 300: the receiver `self.gyro.write()` is evaluated first, then the
\* argument `self.smoothing.write()`; both guards live to the end of the
\* statement.
recompute_smoothness_locks ==
    << acq("gyro", "W"), acq("smoothing", "W"), rel("smoothing"), rel("gyro") >>

\* lines 294-296 and 274-285
recompute_adaptive_zoom_locks ==
    Read("params") \o Read("params") \o Read("gyro") \o Write("params")

\* lines 304-305
recompute_undistortion_locks == from_manager_locks \o Write("undistortion")

\* lines 309-311
recompute_blocking_locks ==
    recompute_smoothness_locks \o recompute_adaptive_zoom_locks \o recompute_undistortion_locks

\* lines 180-184, 219-227 of a telemetry file: the params read guard and
\* the gyro write guard of the first block, the reads and writes of the
\* load, and at line 227 the smoothing write guard with the gyro read
\* guard taken under it.
load_gyro_data_locks ==
    << acq("params", "R"), acq("gyro", "W"), rel("gyro"), rel("params") >>
    \o Read("params") \o Write("gyro") \o Write("params")
    \o << acq("smoothing", "W"), acq("gyro", "R"), rel("gyro"), rel("smoothing") >>

\* lines 577-587: the gyro write guard under the params write guard, then
\* from_manager under the undistortion write guard.
override_video_fps_locks ==
    << acq("params", "W"), acq("gyro", "W"), rel("gyro"), rel("params") >>
    \o << acq("undistortion", "W") >> \o from_manager_locks \o << rel("undistortion") >>

\* lines 317-332: the snapshots, then the closure is handed to the pool.
recompute_threaded_locks == from_manager_locks \o Read("params") \o << spawn >>

\* lines 337-360: the closure takes one guard at a time.
job_locks ==
    Read("smoothing") \o Write("smoothing") \o Write("gyro")
    \o Read("params") \o Write("params") \o Write("undistortion") \o Read("smoothing")

Ops == {"recompute_blocking", "load_gyro_data", "override_video_fps", "recompute_threaded"}

LockProgram(op) ==
    CASE op = "recompute_blocking" -> recompute_blocking_locks
      [] op = "load_gyro_data" -> load_gyro_data_locks
      [] op = "override_video_fps" -> override_video_fps_locks
      [] op = "recompute_threaded" -> recompute_threaded_locks
      [] op = "job" -> job_locks
      [] OTHER -> << >>

\* The step thread t is at, if it is inside an operation.
InOp(t) == threads[t].op # "idle" /\ threads[t].pc <= Len(LockProgram(threads[t].op))
Step(t) == LockProgram(threads[t].op)[threads[t].pc]

\* parking_lot::RwLock: a writer needs the lock to itself, a reader needs
\* no writer.
CanAcquire(l, m) ==
    IF m = "W" THEN rwlock[l].writer = None /\ rwlock[l].readers = {}
    ELSE rwlock[l].writer = None

\* A caller thread calls an operation; recompute_threaded while the pool
\* has room for the closure.
lock_call(t, op) ==
    /\ t \in Callers
    /\ threads[t].op = "idle"
    /\ op = "recompute_threaded" => threads[Worker].queued < MaxJobs
    /\ threads' = [threads EXCEPT ![t] = [op |-> op, pc |-> 1, queued |-> 0]]
    /\ UNCHANGED << data, rwlock, other >>

\* THREAD_POOL.spawn: the worker takes a closure that is waiting.
lock_job ==
    /\ threads[Worker].op = "idle"
    /\ threads[Worker].queued > 0
    /\ threads' = [threads EXCEPT ![Worker] = [op |-> "job", pc |-> 1, queued |-> threads[Worker].queued - 1]]
    /\ UNCHANGED << data, rwlock, other >>

lock_acquire(t) ==
    /\ InOp(t)
    /\ Step(t).k = "acq"
    /\ CanAcquire(Step(t).l, Step(t).m)
    /\ rwlock' = [rwlock EXCEPT ![Step(t).l] =
                     IF Step(t).m = "W" THEN [@ EXCEPT !.writer = Some(t)]
                     ELSE [@ EXCEPT !.readers = @ \cup {t}]]
    /\ threads' = [threads EXCEPT ![t].pc = @ + 1]
    /\ UNCHANGED << data, other >>

lock_release(t) ==
    /\ InOp(t)
    /\ Step(t).k = "rel"
    /\ rwlock' = [rwlock EXCEPT ![Step(t).l] =
                     IF @.writer = Some(t) THEN [@ EXCEPT !.writer = None]
                     ELSE [@ EXCEPT !.readers = @ \ {t}]]
    /\ threads' = [threads EXCEPT ![t].pc = @ + 1]
    /\ UNCHANGED << data, other >>

\* line 332: the closure waits for the worker.
lock_spawn(t) ==
    /\ InOp(t)
    /\ Step(t).k = "spawn"
    /\ threads' = [threads EXCEPT ![t].pc = @ + 1, ![Worker].queued = @ + 1]
    /\ UNCHANGED << data, rwlock, other >>

\* The operation, or the closure, has run to its end.
lock_return(t) ==
    /\ threads[t].op # "idle"
    /\ threads[t].pc > Len(LockProgram(threads[t].op))
    /\ threads' = [threads EXCEPT ![t].op = "idle", ![t].pc = 0]
    /\ UNCHANGED << data, rwlock, other >>

\* ------------------------------------------------------- specifications
\* Dimensions a caller passes.
Dims == { <<0, 0>>, <<3, 2>>, <<960, 540>>, <<1920, 1080>> }

\* The steps that finish a load once it has begun.
LoadSteps ==
    \/ init_from_video_data_load
    \/ load_gyro_data_read
    \/ load_gyro_data_load
    \/ load_gyro_data_checksum

\* The steps of recompute_threaded on the caller's thread.
Submit ==
    \/ recompute_threaded_snapshot
    \/ recompute_threaded_submit

\* Recomputation in the pool: the caller loads a video with telemetry,
\* edits the smoothing and the zoom and asks for recomputation.
Edits ==
    \/ \E v \in Vals : set_smoothing_param(v)
    \/ \E v \in Vals : set_adaptive_zoom(Self, v)
    \/ \E f \in Files : init_from_video_data(TelemetryFile(f), 1, 1, 1, <<3, 2>>)

Next ==
    \/ ui.calls < MaxCalls /\ Edits
    \/ LoadSteps
    \/ Submit
    \/ \E j \in Slots : JobStep(j)

Spec == Init /\ [][Next]_vars

\* The pool alone: recomputation is asked for again and again on a
\* manager nobody edits, and the jobs interleave with the submissions.
NextPool ==
    \/ Submit
    \/ \E j \in Slots : JobStep(j)

SpecPool == Init /\ [][NextPool]_vars

\* The last job against every other kind of call: the caller asks for
\* recomputation and goes on to edit, clear, override the frame rate,
\* recompute synchronously and render while the pool works.
ClearSteps == clear_gyro \/ clear_pose

OverrideSteps ==
    \/ override_video_fps_undistortion
    \/ override_video_fps_smoothness
    \/ override_video_fps_zoom

BlockingSteps ==
    \/ recompute_blocking_zoom_read
    \/ recompute_blocking_zoom_compute
    \/ recompute_blocking_zoom_write
    \/ recompute_blocking_snapshot
    \/ recompute_blocking_undistortion

OtherCalls ==
    \/ set_smoothing_param(1)
    \/ set_adaptive_zoom(Self, 1)
    \/ clear
    \/ override_video_fps(2)
    \/ recompute_blocking
    \/ process_pixels(Self, RGBA8, 0, 0)
    \/ fill_undistortion_data_padded(Self, 9)

NextLive ==
    \/ ui.calls < MaxLiveCalls /\ OtherCalls
    \/ ClearSteps
    \/ OverrideSteps
    \/ BlockingSteps
    \/ Submit
    \/ \E j \in Slots : JobStep(j)

\* The pool is fair to every job it was handed.
SpecLive == Init /\ [][NextLive]_vars /\ \A j \in Slots : WF_vars(JobStep(j))

\* clear() against jobs in flight: a video with telemetry is loaded, the
\* zoom is switched on, recomputation is asked for, and clear() is called.
ClearCalls ==
    \/ \E f \in Files : init_from_video_data(TelemetryFile(f), 1, 1, 1, <<3, 2>>)
    \/ set_adaptive_zoom(Self, 1)
    \/ clear

NextClear ==
    \/ ui.calls < MaxCalls /\ ClearCalls
    \/ LoadSteps
    \/ ClearSteps
    \/ Submit
    \/ \E j \in Slots : JobStep(j)

SpecClear == Init /\ [][NextClear]_vars

\* The orchestrators a caller holds: the original, and the render clone
\* once it was made.
Managers == {Self} \cup (IF stab = None THEN {} ELSE {stab[1]})

\* Sizing without the pool: a video is loaded, the viewport and the output
\* are resized, the render clone is taken, and both are edited further.
SizeCalls ==
    \/ \E d \in Dims : init_from_video_data(Document(None, None, 1), 1, 1, 1, d)
    \/ \E m \in Managers, d \in Dims : set_size(m, d[1], d[2])
    \/ \E m \in Managers, d \in Dims : set_output_size(m, d[1], d[2])
    \/ \E d \in Dims : get_render_stabilizator(d)
    \/ \E m \in Managers : set_fov(m, 0)
    \/ \E m \in Managers : set_offset(m, 1)
    \/ \E m \in Managers : set_lens_param(m, 1)

NextSize ==
    \/ ui.calls < MaxEdits /\ SizeCalls
    \/ init_from_video_data_load
    \/ load_gyro_data_read

SpecSize == Init /\ [][NextSize]_vars

\* Render time: the caller switches stabilization and the overlays, sizes
\* the output, the synchronization fills the pose estimator, and frames
\* are processed and undistortion data fetched.
OutSizes == {0, 8, 9, 17, 18}

RenderCalls ==
    \/ \E b \in BOOLEAN : set_stab_enabled(Self, b)
    \/ \E b \in BOOLEAN : set_show_detected_features(Self, b)
    \/ \E b \in BOOLEAN : set_show_optical_flow(Self, b)
    \/ init_from_video_data(Document(None, None, 1), 1, 1, 1, <<3, 2>>)
    \/ set_size(Self, 3, 2)
    \/ \E d \in {<<3, 2>>, <<3, 3>>} : set_output_size(Self, d[1], d[2])
    \/ \E T \in PixelTypes, d \in {<<0, 0>>, <<3, 2>>, <<3, 3>>} :
          process_pixels(Self, T, d[1], d[2])
    \/ \E n \in OutSizes : fill_undistortion_data_padded(Self, n)

NextRender ==
    \/ ui.calls < MaxEdits /\ RenderCalls
    \/ init_from_video_data_load
    \/ load_gyro_data_read
    \/ pose_estimator_sync

SpecRender == Init /\ [][NextRender]_vars

\* Frames rendered while the pool recomputes: the caller edits the fov,
\* asks for recomputation, rebuilds synchronously, and processes frames
\* and fetches undistortion data at any moment in between.
FrameCalls ==
    \/ set_fov(Self, 0)
    \/ recompute_blocking
    \/ \E d \in {<<0, 0>>, <<3, 2>>} : process_pixels(Self, RGBA8, d[1], d[2])
    \/ fill_undistortion_data_padded(Self, 9)

NextFrames ==
    \/ ui.calls < MaxCalls /\ FrameCalls
    \/ BlockingSteps
    \/ Submit
    \/ \E j \in Slots : JobStep(j)

SpecFrames == Init /\ [][NextFrames]_vars

\* Frame numbers turned into timestamps and back.
NextTime ==
    \/ ui.calls < MaxEdits /\ \E f \in 0..MaxFrame, fps \in FrameRates : timestamp_at_frame_call(f, fps)
    \/ ui.calls < MaxEdits /\ frame_at_timestamp_call

SpecTime == Init /\ [][NextTime]_vars

\* The synchronous rebuild next to the pool: a video with telemetry is
\* loaded, then the zoom is switched on, then recompute_blocking is called,
\* while recomputation is asked for in the background at any moment.
BlockingCalls ==
    \/ ui.calls = 0 /\ \E f \in Files :
          init_from_video_data(TelemetryFile(f), 1, 1, 1, <<3, 2>>)
    \/ ui.calls = 1 /\ set_adaptive_zoom(Self, 1)
    \/ ui.calls >= 2 /\ recompute_blocking

NextBlocking ==
    \/ ui.calls < MaxCalls + 1 /\ BlockingCalls
    \/ LoadSteps
    \/ BlockingSteps
    \/ Submit
    \/ \E j \in Slots : JobStep(j)

SpecBlocking == Init /\ [][NextBlocking]_vars

\* The same with the pool handed its jobs before recompute_blocking is
\* called only: the third call of BlockingCalls is recompute_blocking.
BlockingCalled == ui.calls > 2

NextRebuilt ==
    \/ ui.calls < MaxCalls + 1 /\ BlockingCalls
    \/ LoadSteps
    \/ BlockingSteps
    \/ ~BlockingCalled /\ Submit
    \/ \E j \in Slots : JobStep(j)

SpecRebuilt == Init /\ [][NextRebuilt]_vars

\* Loading: every kind of path is handed to load_gyro_data and to
\* init_from_video_data, a zero frame rate and a zero video size included,
\* and the output is sized and frames processed on what was loaded.
LoadCalls ==
    \/ \E path \in Paths : load_gyro_data(path)
    \/ \E path \in Paths, fps \in 0..1, d \in {<<0, 0>>, <<3, 2>>} :
          init_from_video_data(path, 1, fps, 1, d)
    \/ \E d \in {<<0, 0>>, <<3, 2>>} : set_output_size(Self, d[1], d[2])
    \/ \E d \in {<<0, 0>>, <<3, 2>>} : process_pixels(Self, RGBA8, d[1], d[2])

NextLoad ==
    \/ ui.calls < MaxCalls /\ LoadCalls
    \/ LoadSteps
    \/ pose_estimator_sync

SpecLoad == Init /\ [][NextLoad]_vars

\* The stages of a job against everything that moves a fingerprint: the
\* caller loads telemetry, edits the smoothing, the zoom window and the
\* fov, overrides the frame rate and clears, and asks for recomputation
\* at any moment.
StageCalls ==
    \/ \E f \in Files : init_from_video_data(TelemetryFile(f), 1, 1, 1, <<3, 2>>)
    \/ set_smoothing_param(1)
    \/ set_adaptive_zoom(Self, 1)
    \/ set_fov(Self, 0)
    \/ override_video_fps(2)
    \/ clear

NextStages ==
    \/ ui.calls < MaxCalls /\ StageCalls
    \/ LoadSteps
    \/ OverrideSteps
    \/ ClearSteps
    \/ Submit
    \/ \E j \in Slots : JobStep(j)

SpecStages == Init /\ [][NextStages]_vars

\* The locks alone: every caller thread calls recompute_blocking,
\* load_gyro_data, override_video_fps and recompute_threaded again and
\* again while the worker runs the closures.
NextLocks ==
    \/ \E t \in Callers, op \in Ops : lock_call(t, op)
    \/ lock_job
    \/ \E t \in Threads : lock_acquire(t)
    \/ \E t \in Threads : lock_release(t)
    \/ \E t \in Callers : lock_spawn(t)
    \/ \E t \in Threads : lock_return(t)

SpecLocks == Init /\ [][NextLocks]_vars

\* override_video_fps against the pool: jobs are handed over, the frame
\* rate is overridden once while they are in flight, and once the override
\* has returned the last job is handed over.
OverrideReturned == ui.calls > 0 /\ ui.pc \in {"idle", "rt_submit"}

NextOverride ==
    \/ ui.calls = 0 /\ override_video_fps(2)
    \/ OverrideSteps
    \/ (ui.calls = 0 /\ Len(THREAD_POOL) < MaxJobs - 1) /\ Submit
    \/ (OverrideReturned /\ Len(THREAD_POOL) = MaxJobs - 1) /\ Submit
    \/ \E j \in Slots : JobStep(j)

SpecOverride == Init /\ [][NextOverride]_vars

\* Two threads in recompute_threaded at once: the caller sets the fov and
\* calls recompute_threaded once, the second thread calls it once.
NextOverlap ==
    \/ ui.calls < MaxCalls /\ \E v \in Vals : set_fov(Self, v)
    \/ Len(THREAD_POOL) = (IF other.slot > 0 THEN 1 ELSE 0) /\ recompute_threaded_snapshot
    \/ recompute_threaded_submit
    \/ other.slot = 0 /\ other_recompute_threaded_snapshot
    \/ other_recompute_threaded_submit
    \/ \E j \in Slots : JobStep(j)

SpecOverlap == Init /\ [][NextOverlap]_vars

\* ----------------------------------------------------------------- claims
Committed(j) == "undistortion" \in hist.job[j].wrote
Results == {"undistortion", "gyro", "fovs"}

\* C1: once a job j2 has committed its compute parameters (stage 3), no
\* job j1 submitted before j2 writes the engine's compute parameters, the
\* shared gyro's quaternion sequences or the per-frame fov list any more.
C1_StaleJobNeverClobbers ==
    [][ \A j1, j2 \in Slots :
          (j1 < j2 /\ Committed(j2)) =>
             hist'.job[j1].wrote \cap Results = hist.job[j1].wrote \cap Results ]_vars

\* C2: of two back-to-back jobs j1, j2 the callback of j1 never fires once
\* j2 has committed; and when both have finished and the callback of j1
\* fired after j2 was submitted, nothing j1 wrote is still in place.
C2_CallbackOrder ==
    /\ [][ \A j1, j2 \in Slots :
             (j2 = j1 + 1 /\ Committed(j2)) => hist'.job[j1].cb = hist.job[j1].cb ]_vars
    /\ [](\A j1, j2 \in Slots :
             ( /\ j2 = j1 + 1
               /\ hist.job[j1].cb > 0
               /\ hist.job[j1].cb_at >= j2
               /\ Running(j2) /\ THREAD_POOL[j2].pc = "done" )
             => \A t \in hist.job[j1].wrote : hist.writer[t] # j1)

\* C3: a job that found the stored id to differ from its own at a
\* checkpoint writes nothing shared afterwards and never calls back; a
\* callback comes from a job that passed checkpoints A, B and C, with the
\* id recompute_threaded returned for it.
C3_SupersededJobIsSilent ==
    /\ [][ \A j \in Slots :
             hist.job[j].found_stale =>
                /\ hist'.job[j].wrote = hist.job[j].wrote
                /\ hist'.job[j].cb = hist.job[j].cb ]_vars
    /\ [](\A j \in Slots :
             hist.job[j].cb > 0 =>
                /\ ~hist.job[j].found_stale
                /\ hist.job[j].passed = {"A", "B", "C"}
                /\ hist.job[j].cb_arg = hist.job[j].returned)

\* A job was superseded after it had written the gyro, and the job that
\* superseded it has called back.
C3_Witness ==
    \E j1, j2 \in Slots :
       /\ hist.job[j1].found_stale /\ "gyro" \in hist.job[j1].wrote
       /\ hist.job[j2].cb = 1

\* C5: a job that had not passed checkpoint C when a later
\* recompute_threaded stored its id never commits compute parameters and
\* never calls back, whatever ids the two submissions drew.
C5_NewerSupersedesOlder ==
    \A j \in Slots :
       hist.job[j].before_C_at_next => ~Committed(j) /\ hist.job[j].cb = 0

\* C4: a job after which no later recompute_threaded is made commits its
\* compute parameters and calls back, and no job calls back twice,
\* whatever setter, clear, override_video_fps, recompute_blocking or
\* render-time call the caller makes meanwhile.
Delivered(j) == Committed(j) /\ hist.job[j].cb = 1

C4_LastJobIsDelivered ==
    /\ [](\A j \in Slots : hist.job[j].cb <= 1)
    /\ \A j \in Slots :
          (Len(THREAD_POOL) = j) ~> (Len(THREAD_POOL) > j \/ Delivered(j))

\* The last job was delivered although clear() ran while it was in
\* flight: clear() reset the gyro after the job's stage 1 wrote it, and
\* the job's stage 2 wrote the fovs after clear() reset the params.
C4_Witness ==
    /\ Len(THREAD_POOL) = MaxJobs
    /\ Delivered(MaxJobs)
    /\ hist.cleared # None
    /\ "gyro" \in hist.job[MaxJobs].wrote
    /\ hist.writer["gyro"] = 0
    /\ hist.writer["fovs"] = MaxJobs

Abs(x) == IF x < 0 THEN -x ELSE x

\* C6: right after a set_size or set_output_size call, on the orchestrator
\* it was made on, output_size is video_output_size scaled by
\* size.width / video_size.width, within the rounding of one pixel; and
\* with video_size (1920,1080), size (960,540) and video_output_size
\* (1920,1080) output_size is (960,540).
C6_OutputSizeIsScaled ==
    hist.sized =>
       LET p == params[hist.on]
       IN  /\ \A i \in 1..2 :
                Abs(p.output_size[i] * p.video_size[1] - p.video_output_size[i] * p.size[1])
                   <= p.video_size[1]
           /\ ( ( /\ p.video_size = <<1920, 1080>> /\ p.size = <<960, 540>>
                  /\ p.video_output_size = <<1920, 1080>> )
                => p.output_size = <<960, 540>> )

\* C7: from the return of clear() to the next setter or load, the six
\* preserved fields of the params hold their values of before the call,
\* every other field its default, the gyro is a fresh one, and there are
\* no sync results, also while jobs submitted before clear() are running.
C7_ClearedStaysCleared ==
    hist.cleared # None =>
       /\ params[Self.params] = cleared(hist.cleared[1])
       /\ gyro[Self.gyro] = GyroSource_new
       /\ pose_estimator.sync_results = 0

\* C8: process_pixels returns false, writes no output pixel, draws no
\* overlay and does not call the engine whenever stabilization is off or
\* the requested output dimensions differ from output_size; otherwise it
\* returns what the engine returned.
C8_ProcessPixelsGuard ==
    ret.op = "process_pixels" =>
       IF ~ret.enabled \/ ret.out_size # ret.output_size
       THEN /\ ret.val = FALSE
            /\ ~ret.out_pixels_written
            /\ ~ret.pixels_drawn
            /\ ~ret.engine_called
       ELSE /\ ret.engine_called
            /\ ret.val = ret.engine[1]

\* Stabilization was on and the width asked for was the configured one,
\* only the height differed; and a call that went through to the engine.
C8_Witness ==
    /\ ret.op = "process_pixels"
    /\ ret.enabled
    /\ ret.output_size[1] > 0
    /\ ret.out_size[1] = ret.output_size[1]
    /\ ret.out_size[2] # ret.output_size[2]
    /\ ret.val = FALSE

\* C9: fill_undistortion_data_padded returns false and writes no
\* destination slot whenever stabilization is off, the engine has no item
\* for the timestamp, or out_size is below 9 scalars per parameter row.
C9_FillRejects ==
    ( /\ ret.op = "fill_undistortion_data_padded"
      /\ ( \/ ~ret.enabled
           \/ ret.itm = None
           \/ ret.out_size < 9 * ret.itm[1] ) )
    => ret.val = FALSE /\ ret.written = {}

\* Stabilization was on, the engine had an item of two rows, and the
\* destination was one scalar short.
C9_Witness ==
    /\ ret.op = "fill_undistortion_data_padded"
    /\ ret.enabled
    /\ ret.itm = Some(2)
    /\ ret.out_size = 17
    /\ ret.val = FALSE

\* The original's side of the state, and the clone's.
OriginalState ==
    << params[Self.params], gyro[Self.gyro], lens[Self.lens], undistortion[Self.undistortion],
       smoothing, pose_estimator, current_compute_id, smoothness_checksum,
       adaptive_zoom_checksum >>

CloneState(h) == << params[h.params], gyro[h.gyro], lens[h.lens], undistortion[h.undistortion] >>

\* C10: get_render_stabilizator(output_size) leaves the original as it
\* was; the clone holds copies of the original's params, gyro and lens in
\* cells of its own, with framebuffer_inverted false, size the original's
\* video_size, and output_size and video_output_size both the size asked
\* for; afterwards no call on the one changes the other.
C10_RenderClone ==
    /\ [][ (stab = None /\ stab' # None) =>
             LET h == stab'[1]
             IN  /\ OriginalState' = OriginalState
                 /\ h.params # Self.params /\ h.gyro # Self.gyro /\ h.lens # Self.lens
                 /\ gyro'[h.gyro] = gyro[Self.gyro]
                 /\ lens'[h.lens] = lens[Self.lens]
                 /\ params'[h.params] =
                       [params[Self.params] EXCEPT
                           !.framebuffer_inverted = FALSE,
                           !.size = params[Self.params].video_size,
                           !.output_size = ret'.output_size,
                           !.video_output_size = ret'.output_size] ]_vars
    /\ [][ stab # None =>
             /\ (hist'.on = stab[1].params => OriginalState' = OriginalState)
             /\ (hist'.on = Self.params => CloneState(stab[1])' = CloneState(stab[1])) ]_vars

\* A render-time call: one frame processed, or one item fetched.
RenderCall ==
    \/ \E T \in PixelTypes, d \in Dims : process_pixels(Self, T, d[1], d[2])
    \/ \E n \in OutSizes : fill_undistortion_data_padded(Self, n)

\* The compute parameters in the original's engine are those a job
\* committed at its stage 3, unless the caller was the last to set them.
EngineHoldsCommitted ==
    LET w == hist.writer["undistortion"]
    IN  IF w = 0
        THEN \A j \in 1..Len(THREAD_POOL) : BeforeC(THREAD_POOL[j].pc) => ~Committed(j)
        ELSE /\ Running(w) /\ Committed(w)
             /\ THREAD_POOL[w].pc \in {"F1", "F2", "cb", "done"}
             /\ undistortion[Self.undistortion].compute_params = Some(THREAD_POOL[w].params)

\* C11: between two calls of the caller, whatever the jobs are doing, a
\* frame can be processed and undistortion data fetched at once; such a
\* call leaves the pool, the current job id and the committed
\* fingerprints as they were, and the compute parameters its engine works
\* from are those last committed to the engine, by a job's stage 3 or by
\* the caller, never the private ones of a job still before stage 3.
C11_RenderNeverWaits ==
    /\ [](Idle => /\ ENABLED process_pixels(Self, RGBA8, 0, 0)
                  /\ ENABLED fill_undistortion_data_padded(Self, 9))
    /\ [][ RenderCall =>
             /\ UNCHANGED << THREAD_POOL, current_compute_id, smoothness_checksum,
                             adaptive_zoom_checksum >>
             /\ ret'.engine_called =>
                   ret'.compute_params = Some(undistortion[Self.undistortion].compute_params) ]_vars
    /\ []EngineHoldsCommitted

\* A frame was processed while a job was before its stage 3 with private
\* compute parameters other than those the engine worked from, which an
\* earlier job had committed.
C11_Witness ==
    /\ ret.op = "process_pixels"
    /\ ret.engine_called
    /\ ui.calls = MaxCalls
    /\ hist.writer["undistortion"] = 1
    /\ ret.compute_params = Some(Some(THREAD_POOL[1].params))
    /\ Len(THREAD_POOL) = 2
    /\ THREAD_POOL[2].pc = "S2_write"
    /\ THREAD_POOL[2].params # THREAD_POOL[1].params

\* C12: the frame of the timestamp of frame f, at any rate fps > 0, is
\* f, f - 1 or f + 1.
C12_FrameRoundTrip ==
    ret.op = "frame_at_timestamp" => Abs(ret.val - ret.frame) <= 1

\* The steps of recompute_blocking in the order the caller takes them.
BlockingOrder ==
    << "idle", "rb_zoom_read", "rb_zoom_compute", "rb_zoom_write", "rb_snapshot", "rb_undistortion", "idle" >>

InBlocking(pc) == \E i \in 2..6 : pc = BlockingOrder[i]

Unparsable(path) ==
    \/ path.read # "ok"
    \/ path.gyroflow /\ try_block(path) = "panic"

\* C14: every failure to read or parse the gyro data is returned by
\* load_gyro_data as Err, and init_from_video_data returns Ok whatever
\* the load did.
C14_LoadFailuresAreValues ==
    /\ (ret.op = "load_gyro_data" /\ Unparsable(ret.path)) => ret.val = "Err"
    /\ ret.op = "init_from_video_data" => ret.val = "Ok"

\* C15: no public operation panics, whatever the document's tuples, the
\* video size and the frame rate are.
C15_NoPanic == ui.pc # "panicked"

\* The jobs handed to the pool so far.
Jobs == 1..Len(THREAD_POOL)

\* The smoothing fingerprint is the committed one.
SmoothnessCommitted == smoothing_get_state_checksum(smoothing) = smoothness_checksum

\* The caller is inside override_video_fps: it has re-initialised the gyro
\* from the params and goes on to zero the committed fingerprints.
GyroReinitialised == ui.pc \in {"ov_undistortion", "ov_smoothness", "ov_zoom"}

\* C16: a job runs stage 1 if and only if the smoothing fingerprint differs
\* from the committed smoothness fingerprint when the job reaches the
\* stage: the test at the head of the stage skips exactly when they are
\* equal, and the gyro is written by a job only past a test that found them
\* different.  A job that finishes commits the fingerprint of the smoothing
\* as it is, and while the smoothing does not change and the gyro is not
\* re-initialised the committed fingerprint stays that one, so a later
\* job skips stage 1.
C16_Stage1IffFingerprintDiffers ==
    /\ [][ \A j \in Jobs :
             /\ JobStage1Check(j) =>
                   (THREAD_POOL'[j].pc = "B") = SmoothnessCommitted
             /\ (THREAD_POOL'[j].pc = "S1_clone" /\ THREAD_POOL[j].pc # "S1_clone") =>
                   (THREAD_POOL[j].pc = "S1_check" /\ ~SmoothnessCommitted)
             /\ (THREAD_POOL'[j].pc = "S1_write" /\ THREAD_POOL[j].pc # "S1_write") =>
                   THREAD_POOL[j].pc = "S1_clone"
             /\ (hist'.job[j].wrote # hist.job[j].wrote /\ "gyro" \in hist'.job[j].wrote \ hist.job[j].wrote) =>
                   (THREAD_POOL[j].pc = "S1_write" /\ 1 \in hist'.job[j].ran)
             /\ JobFinalizeSmoothness(j) => SmoothnessCommitted' ]_vars
    /\ [][ (SmoothnessCommitted /\ smoothing' = smoothing /\ ~GyroReinitialised) =>
             (SmoothnessCommitted' /\ smoothness_checksum' = smoothness_checksum) ]_vars

\* The second job was handed over after the first finished, on telemetry
\* the first smoothed: it has passed stage 1 without running it.
C16_Witness ==
    /\ Len(THREAD_POOL) = 2
    /\ hist.job[1].cb = 1 /\ hist.job[1].cb_at = 1 /\ 1 \in hist.job[1].ran
    /\ gyro[Self.gyro].smoothed_quaternions # NoSmoothed
    /\ THREAD_POOL[2].pc = "S2_check"
    /\ "A" \in hist.job[2].passed /\ 1 \notin hist.job[2].ran
    /\ SmoothnessCommitted

\* The fingerprint of job j's own zoom is the committed one.
ZoomCommitted(j) == zoom_get_state_checksum(THREAD_POOL[j].zoom) = adaptive_zoom_checksum

\* C17: a job runs stage 2 if and only if stage 1 ran in this same job or
\* the fingerprint of the job's zoom differs from the committed
\* adaptive-zoom fingerprint: the test at the head of the stage skips
\* exactly when neither is so, and a job writes the params' fovs only in
\* stage 2, so a job that skipped the stage never wrote them.
C17_Stage2IffChangedOrZoomDiffers ==
    /\ [][ \A j \in Jobs :
             /\ JobStage2Check(j) =>
                   (THREAD_POOL'[j].pc = "S2_compute") = (1 \in hist.job[j].ran \/ ~ZoomCommitted(j))
             /\ JobStage2Check(j) =>
                   (THREAD_POOL'[j].pc = "C") = (1 \notin hist.job[j].ran /\ ZoomCommitted(j))
             /\ (THREAD_POOL'[j].pc = "S2_compute" /\ THREAD_POOL[j].pc # "S2_compute") =>
                   THREAD_POOL[j].pc = "S2_check"
             /\ (THREAD_POOL'[j].pc = "S2_write" /\ THREAD_POOL[j].pc # "S2_write") =>
                   THREAD_POOL[j].pc = "S2_compute"
             /\ "fovs" \in hist'.job[j].wrote \ hist.job[j].wrote =>
                   (THREAD_POOL[j].pc = "S2_write" /\ 2 \in hist'.job[j].ran
                    /\ params'[Self.params].fovs = THREAD_POOL[j].params.fovs) ]_vars
    /\ [](\A j \in Jobs : 2 \notin hist.job[j].ran => "fovs" \notin hist.job[j].wrote)
    /\ [](\A j \in Jobs : THREAD_POOL[j].pc \in {"S2_compute", "S2_write"} =>
                             "B" \in hist.job[j].passed)

\* The second job found the smoothing and the zoom as the first left them:
\* it is past stage 2 having run neither stage, and the fovs in the params
\* are still the first job's.
C17_Witness ==
    /\ Len(THREAD_POOL) = 2
    /\ hist.job[1].ran = {1, 2} /\ hist.job[1].cb = 1
    /\ params[Self.params].fovs # NoFovs
    /\ THREAD_POOL[2].pc = "S3"
    /\ hist.job[2].ran = {} /\ hist.job[2].wrote = {}
    /\ hist.writer["fovs"] = 1

\* C18: when fill_undistortion_data_padded succeeds with n rows, slots
\* 0..7 of the destination get source scalars 0..7, for every group k with
\* 3 <= k < 3n the source triple at 3k..3k+2 goes to slots
\* 4(k-1)..4(k-1)+2, each slot written gets one scalar, and no slot 4j+3
\* with j >= 2 is written.
C18_PaddedLayout ==
    (ret.op = "fill_undistortion_data_padded" /\ ret.val) =>
        LET n == ret.itm[1]
        IN  /\ \A d \in 0..7 : <<d, d>> \in ret.written
            /\ \A k \in 3..(3 * n - 1), c \in 0..2 :
                  <<4 * (k - 1) + c, 3 * k + c>> \in ret.written
            /\ \A p, q \in ret.written : p[1] = q[1] => p = q
            /\ \A p \in ret.written : p[1] % 4 = 3 => p[1] < 8

\* Two rows went into a destination of 18: the groups after the first
\* block are at 8, 12 and 16.
C18_Witness ==
    /\ ret.op = "fill_undistortion_data_padded"
    /\ ret.val
    /\ ret.itm = Some(2)
    /\ {<<8, 9>>, <<12, 12>>, <<18, 17>>} \subseteq ret.written

\* C19: fill_undistortion_data_padded writes no destination slot at or
\* past out_size.
C19_NoWritePastOutSize ==
    ret.op = "fill_undistortion_data_padded" =>
        \A p \in ret.written : p[1] < ret.out_size

\* Thread t waits for a lock it cannot have, and the threads that keep it
\* from it.
Waiting(t) == InOp(t) /\ Step(t).k = "acq" /\ ~CanAcquire(Step(t).l, Step(t).m)

Holders(l) == rwlock[l].readers \cup { t \in Threads : rwlock[l].writer = Some(t) }

BlockedBy(t) ==
    IF Step(t).m = "W" THEN Holders(Step(t).l)
    ELSE { u \in Threads : rwlock[Step(t).l].writer = Some(u) }

\* C20: no set of threads is deadlocked on the subsystem locks, each of
\* them waiting for a lock that another of them holds.
C20_NoDeadlock ==
    ~ \E S \in SUBSET Threads :
        /\ S # {}
        /\ \A t \in S : Waiting(t) /\ BlockedBy(t) \cap S # {}

\* No closure handed to the pool is still at work.
NoJobRunning == \A j \in Jobs : THREAD_POOL[j].pc \in {"done", "return"}

\* C21: whenever the caller is between calls, no job is running and the
\* committed smoothness fingerprint is that of the smoothing as it is, the
\* shared gyro's smoothed quaternions are those of its quaternions under
\* the current smoothing.
C21_FingerprintDescribesGyro ==
    (Idle /\ NoJobRunning /\ SmoothnessCommitted) =>
        LET g == gyro_recompute_smoothness(gyro[Self.gyro], current(smoothing))
        IN  /\ gyro[Self.gyro].smoothed_quaternions = g.smoothed_quaternions
            /\ gyro[Self.gyro].org_smoothed_quaternions = g.org_smoothed_quaternions

\* The jobs handed over before the last one drew another id than it did.
EarlierIdsDiffer ==
    \A j \in 1..(MaxJobs - 1) :
        THREAD_POOL[j].compute_id # THREAD_POOL[MaxJobs].compute_id

\* C22: the job handed over after override_video_fps returned (the last
\* one, under SpecOverride) has run stage 1 and stage 2 when it is done,
\* whatever the jobs in flight at the override did, their ids being other
\* than its own.
C22_OverrideForcesStages ==
    (Len(THREAD_POOL) = MaxJobs /\ THREAD_POOL[MaxJobs].pc = "done" /\ EarlierIdsDiffer) =>
        hist.job[MaxJobs].ran = {1, 2}

\* C23: once recompute_blocking has returned and while the caller makes no
\* other call, no step changes the shared gyro's smoothed quaternions, the
\* params' fovs or the engine's compute params: the jobs handed over before
\* the call (all of them, under SpecRebuilt) write none of the three.
C23_RebuiltStateStays ==
    [][(BlockingCalled /\ Idle /\ ui' = ui) =>
          /\ gyro'[Self.gyro].smoothed_quaternions = gyro[Self.gyro].smoothed_quaternions
          /\ gyro'[Self.gyro].org_smoothed_quaternions = gyro[Self.gyro].org_smoothed_quaternions
          /\ params'[Self.params].fovs = params[Self.params].fovs
          /\ undistortion'[Self.undistortion].compute_params
                = undistortion[Self.undistortion].compute_params]_vars

\* Both threads are back from recompute_threaded, their calls having
\* overlapped, with two ids and two snapshots that differ.
BothReturned ==
    /\ Idle /\ other.pc = "idle" /\ other.slot > 0 /\ Len(THREAD_POOL) = 2
    /\ other.overlapped
    /\ THREAD_POOL[1].compute_id # THREAD_POOL[2].compute_id
    /\ THREAD_POOL[1].params # THREAD_POOL[2].params

\* C24: of two overlapping recompute_threaded calls, the job whose id is
\* the current one is the job of the thread that took its snapshot last:
\* the second thread's job is current exactly if its snapshot was taken
\* after the caller's.
C24_CurrentJobHasLatestSnapshot ==
    BothReturned =>
        (THREAD_POOL[other.slot].compute_id = current_compute_id <=> other.later)

====
